---- MODULE Spec2Model ----
(***************************************************************************)
(* Model of scripts/unicode.py: the table compiler that turns the Unicode  *)
(* Character Database into the normalization tables (composition, fully    *)
(* decomposed, stream-safe) and packs them with a minimal perfect hash.    *)
(*                                                                         *)
(* Two specifications share the module:                                    *)
(*   SpecMPH  minimal_perfect_hash run on a list of keys, one step per     *)
(*            iteration of its bucket loop;                                *)
(*   Spec     UnicodeData.__init__ followed by the __main__ emission.      *)
(***************************************************************************)
EXTENDS Integers, Sequences, FiniteSets, TLC

VARIABLES
    \* the run of minimal_perfect_hash that SpecMPH follows
    mph,
    \* UnicodeData: the maps _load_unicode_data fills
    name_to_char_int, combining_classes, compat_decomp, canon_decomp,
    general_category_mark,
    \* UnicodeData.norm_props, and the lines of StandardizedVariants.txt
    norm_props, variants_file,
    \* UnicodeData: the tables __init__ computes
    canon_comp, canon_fully_decomp, compat_fully_decomp,
    svar_decomp, svar_fully_decomp, ss_leading, ss_trailing,
    \* what has been written to tables.rs and normalization_tests.rs
    out,
    \* where the build is, and the exception that ended it
    pc, err

(***************************************************************************)
(* Bounds of the model.                                                    *)
(***************************************************************************)
\* largest number of distinct keys handed to minimal_perfect_hash by SpecMPH
MaxKeys == 3

\* largest number of UnicodeData.txt records that carry a decomposition
MaxRecords == 2

(***************************************************************************)
(* Program constants.                                                      *)
(***************************************************************************)
\* range(1, 32768): the end of the salt range, itself not tried
SALT_END == 32768

\* S_BASE, L_COUNT, V_COUNT, T_COUNT (line 63)
S_BASE == 44032
L_COUNT == 19
V_COUNT == 21
T_COUNT == 28
\* S_COUNT = L_COUNT * V_COUNT * T_COUNT (line 64)
S_COUNT == L_COUNT * V_COUNT * T_COUNT

\* 0x7f: the last 7-bit ASCII codepoint (line 232)
ASCII_LAST == 127

\* 0x10000: the first codepoint beyond the Basic Multilingual Plane
\* (lines 351 and 360)
ASTRAL_FIRST == 65536

\* 2^16: the 32-bit values of my_hash are kept as <<high half, low half>>,
\* so that no intermediate value leaves the integers TLC can represent
W16 == 65536

\* 2654435769 = 0x9E3779B9 as <<high half, low half>>
HASH_C1 == <<40503, 31161>>
\* 0x31415926 as <<high half, low half>>
HASH_C2 == <<12609, 22822>>

(***************************************************************************)
(* 32-bit arithmetic of my_hash.                                           *)
(***************************************************************************)
RECURSIVE XorBits(_, _, _)
XorBits(a, b, bits) ==
    IF bits = 0 THEN 0
    ELSE (((a % 2) + (b % 2)) % 2) + 2 * XorBits(a \div 2, b \div 2, bits - 1)

XorByte == [a \in 0..255 |-> [b \in 0..255 |-> XorBits(a, b, 8)]]

\* a ^ b on 16-bit halves
Xor16(a, b) == XorByte[a % 256][b % 256] + 256 * XorByte[a \div 256][b \div 256]

\* (a * b) mod 2^16 for 16-bit a and b
MulLow16(a, b) == ((a % 256) * b + (((a \div 256) * b) % 256) * 256) % W16

\* the full product of 16-bit a and b, as <<high half, low half>>
MulFull16(a, b) ==
    LET p0 == a * (b % 256)
        p1 == a * (b \div 256)
        lowsum == p0 + ((p1 % 256) * 256)
    IN  << ((p1 \div 256) + (lowsum \div W16)) % W16, lowsum % W16 >>

\* (x * c) & 0xffffffff on halves
Mul32(x, c) ==
    LET ll == MulFull16(x[2], c[2])
    IN  << (ll[1] + MulLow16(x[1], c[2]) + MulLow16(x[2], c[1])) % W16, ll[2] >>

\* x & 0xffffffff as halves (every key of the model is below 2^31)
Halves(x) == << (x \div W16) % W16, x % W16 >>

\* def my_hash(x, salt, n): ((y * n) >> 32) with
\* y = (((x + salt) * 2654435769) & mask_32) ^ ((x * 0x31415926) & mask_32)
my_hash(x, salt, nn) ==
    LET y1 == Mul32(Halves(x + salt), HASH_C1)
        y2 == Mul32(Halves(x), HASH_C2)
        yh == Xor16(y1[1], y2[1])
        yl == Xor16(y1[2], y2[2])
    IN  ((yh * nn) + ((yl * nn) \div W16)) \div W16

\* the element of a one-element set.  Only({e : x \in {v}}) is e with the
\* name x bound to the value v, as in `x = v` followed by uses of x: v is
\* computed once, however often e reads x.
Only(S) == CHOOSE r \in S : TRUE

(***************************************************************************)
(* Helpers on sequences.                                                   *)
(***************************************************************************)
Range(s) == {s[i] : i \in 1..Len(s)}

\* the elements of a finite set of integers in ascending order
RECURSIVE SortedSeq(_)
SortedSeq(S) ==
    IF S = {} THEN <<>>
    ELSE LET m == CHOOSE a \in S : \A b \in S : a <= b
         IN  <<m>> \o SortedSeq(S \ {m})

(***************************************************************************)
(* minimal_perfect_hash, lines 473-518.  Arrays indexed 0..n-1 are         *)
(* functions on 0..n-1.                                                    *)
(***************************************************************************)
\* buckets[h]: the keys of dd with my_hash(key, 0, n) = h, in dd's order
BucketOf(dd, h) == SelectSeq(dd, LAMBDA key : my_hash(key, 0, Len(dd)) = h)

\* tuple order of Python on (len, h) pairs
PairLess(p, q) == p[1] < q[1] \/ (p[1] = q[1] /\ p[2] < q[2])

\* a sort by descending occupancy that breaks ties by ascending bucket index
RECURSIVE SortTiesAscending(_)
SortTiesAscending(S) ==
    IF S = {} THEN <<>>
    ELSE LET m == CHOOSE p \in S : \A q \in S :
                      q = p \/ p[1] > q[1] \/ (p[1] = q[1] /\ p[2] < q[2])
         IN  <<m>> \o SortTiesAscending(S \ {m})

\* bsorted.sort(reverse = True)
RECURSIVE SortReverse(_)
SortReverse(S) ==
    IF S = {} THEN <<>>
    ELSE LET m == CHOOSE p \in S : \A q \in S : q = p \/ PairLess(q, p)
         IN  <<m>> \o SortReverse(S \ {m})

\* lines 474-483: the state at the head of the bucket loop
MphSetup(dd) ==
    LET nn == Len(dd)
        bks == [h \in 0..(nn - 1) |-> BucketOf(dd, h)]
    IN  [ d       |-> dd,
          n       |-> nn,
          buckets |-> bks,
          bsorted |-> SortReverse({<<Len(bks[h]), h>> : h \in 0..(nn - 1)}),
          claimed |-> [j \in 0..(nn - 1) |-> FALSE],
          salts   |-> [j \in 0..(nn - 1) |-> 0],
          keys    |-> [j \in 0..(nn - 1) |-> 0],
          salt    |-> 0,
          i       |-> 1,
          pc      |-> "loop" ]

\* rehashes = [my_hash(key, salt, n) for key in buckets[h]]
Rehashes(st, h, salt) ==
    [k \in 1..Len(st.buckets[h]) |-> my_hash(st.buckets[h][k], salt, st.n)]

\* a salt test that forgets the slots claimed by earlier buckets
SaltAcceptedIgnoringClaimed(st, h, salt) ==
    ~(Cardinality(Range(Rehashes(st, h, salt))) < Len(st.buckets[h]))

\* lines 495-497: the salt is taken when no rehash is claimed and the
\* rehashes of the bucket are pairwise distinct
SaltAccepted(st, h, salt) ==
    LET rehashes == Rehashes(st, h, salt)
    IN  /\ \A k \in 1..Len(rehashes) : ~st.claimed[rehashes[k]]
        /\ ~(Cardinality(Range(rehashes)) < Len(st.buckets[h]))

\* a range that includes its end
SaltLastInclusive == SALT_END

\* the last salt of range(1, 32768): the end of a range is not part of it
SaltLast == SALT_END - 1

\* the salts tried for a bucket: range(1, 32768)
SaltRange == 1..SaltLast

RECURSIVE FirstSaltFrom(_, _, _)
FirstSaltFrom(st, h, salt) ==
    IF SaltAccepted(st, h, salt) THEN salt ELSE FirstSaltFrom(st, h, salt + 1)

\* for salt in range(1, 32768): the first salt accepted, 0 when the loop
\* runs out (salts[h] is then still 0, line 504)
FindSalt(st, h) ==
    IF \E salt \in SaltRange : SaltAccepted(st, h, salt)
    THEN FirstSaltFrom(st, h, 1)
    ELSE 0

\* lines 499-502: for key in buckets[h]: claimed[rehash] = True; keys[rehash] = key
RECURSIVE Place(_, _, _, _)
Place(st, h, salt, k) ==
    IF k > Len(st.buckets[h]) THEN st
    ELSE LET key == st.buckets[h][k]
             rehash == my_hash(key, salt, st.n)
         IN  Place([st EXCEPT !.claimed[rehash] = TRUE, !.keys[rehash] = key],
                   h, salt, k + 1)

\* one iteration of `for (bucket_size, h) in bsorted`, lines 484-517.  The
\* field salt is the loop variable of line 492 as the inner loop leaves it:
\* the accepted salt after the break, the last salt of the range otherwise.
MphIterate(st) ==
    LET bucket_size == st.bsorted[st.i][1]
        h == st.bsorted[st.i][2]
        found == FindSalt(st, h)
    IN  IF bucket_size = 0 THEN [st EXCEPT !.pc = "return"]
        ELSE IF found = 0 THEN [st EXCEPT !.salt = SaltLast, !.pc = "exit"]
        ELSE [Place([st EXCEPT !.salts[h] = found, !.salt = found], h, found, 1)
                  EXCEPT !.i = st.i + 1]

\* the loop runs to its end, to a break, or to exit(1)
RECURSIVE MphRun(_)
MphRun(st) ==
    IF st.pc # "loop" THEN st
    ELSE IF st.i > st.n THEN [st EXCEPT !.pc = "return"]
    ELSE Only({MphRun(nx) : nx \in {MphIterate(st)}})

\* def minimal_perfect_hash(d): pc = "return" with (salts, keys), or "exit"
minimal_perfect_hash(dd) == Only({MphRun(st) : st \in {MphSetup(dd)}})

(***************************************************************************)
(* The build: UnicodeData.__init__ (lines 67-91) and __main__ (520-560).   *)
(* Tables (dicts) are functions; a missing key is a key outside DOMAIN.    *)
(***************************************************************************)
buildvars ==
    << name_to_char_int, combining_classes, compat_decomp, canon_decomp,
       general_category_mark, norm_props, variants_file,
       canon_comp, canon_fully_decomp, compat_fully_decomp,
       svar_decomp, svar_fully_decomp, ss_leading, ss_trailing,
       out, pc, err >>

vars == << mph, buildvars >>

\* {}: the empty dict
EmptyTable == <<>>

\* the restriction of a table to the keys in S
Restrict(f, S) == [x \in S |-> f[x]]

\* d[k] = v on a dict
Put(f, k, v) == [x \in (DOMAIN f) \cup {k} |-> IF x = k THEN v ELSE f[x]]

\* S_BASE <= char_int < S_BASE + S_COUNT (lines 148, 237, 266)
IsHangul(c) == S_BASE <= c /\ c < S_BASE + S_COUNT

(***************************************************************************)
(* _compute_canonical_comp, lines 195-209.                                 *)
(***************************************************************************)
\* the pairs without `or low`: a record of one codepoint gets the bound 0
comp_exclusions_without_low(props) ==
    [r \in 1..Len(props["Full_Composition_Exclusion"]) |->
        LET rec == props["Full_Composition_Exclusion"][r]
        IN  << rec.low, IF rec.high = <<>> THEN 0 ELSE rec.high[1] >>]

\* (int(low, 16), int(high or low, 16)) for the records of
\* Full_Composition_Exclusion; the field high is <<>> for the empty string
comp_exclusions(props) ==
    [r \in 1..Len(props["Full_Composition_Exclusion"]) |->
        LET rec == props["Full_Composition_Exclusion"][r]
        IN  << rec.low, IF rec.high = <<>> THEN rec.low ELSE rec.high[1] >>]

\* the test with lo < char_int: the first codepoint of an interval is let in
ExcludedAboveLow(props, char_int) ==
    \E r \in 1..Len(comp_exclusions(props)) :
        /\ comp_exclusions(props)[r][1] < char_int
        /\ char_int <= comp_exclusions(props)[r][2]

\* any(lo <= char_int <= hi for lo, hi in comp_exclusions)
Excluded(props, char_int) ==
    \E r \in 1..Len(comp_exclusions(props)) :
        /\ comp_exclusions(props)[r][1] <= char_int
        /\ char_int <= comp_exclusions(props)[r][2]

\* the loop of lines 201-207 from item k of canon_decomp.items() on, with
\* the dict built so far; an assertion that fails ends it
RECURSIVE CompLoop(_, _, _, _, _)
CompLoop(decomps, props, items, k, comp) ==
    IF k > Len(items) THEN [ok |-> TRUE, table |-> comp, error |-> ""]
    ELSE LET char_int == items[k]
             decomp == decomps[char_int]
         IN  IF Excluded(props, char_int)
                 THEN CompLoop(decomps, props, items, k + 1, comp)
             ELSE IF Len(decomp) # 2
                 THEN [ok |-> FALSE, table |-> comp, error |-> "assert len(decomp) == 2"]
             ELSE IF <<decomp[1], decomp[2]>> \in DOMAIN comp
                 THEN [ok |-> FALSE, table |-> comp, error |-> "assert pair not in canon_comp"]
             ELSE CompLoop(decomps, props, items, k + 1,
                           Put(comp, <<decomp[1], decomp[2]>>, char_int))

\* def _compute_canonical_comp(self); the records of UnicodeData.txt come
\* in ascending codepoint order, and so do the items of canon_decomp
compute_canonical_comp(decomps, props) ==
    CompLoop(decomps, props, SortedSeq(DOMAIN decomps), 1, EmptyTable)

(***************************************************************************)
(* _compute_fully_decomposed, lines 211-287.                               *)
(***************************************************************************)
\* the outcome of a generator: the list it yields, or the exception raised
Raised(e) == [ok |-> FALSE, seq |-> <<>>, error |-> e]
Yielded(s) == [ok |-> TRUE, seq |-> s, error |-> ""]

\* def _decompose(char_int, compatible), lines 230-253, as the list its
\* generator yields.  path holds the codepoints of the enclosing calls: a
\* codepoint met again on it recurses without end, which Python ends with
\* a RecursionError.
RECURSIVE Decompose(_, _, _)
RECURSIVE DecomposeAll(_, _, _, _)
\* _decompose without the test of line 232
DecomposeAsciiToo(char_int, compatible, path) ==
    IF IsHangul(char_int) THEN Raised("assert not Hangul")
    ELSE IF char_int \in path THEN Raised("RecursionError")
    ELSE IF char_int \in DOMAIN canon_decomp
        THEN DecomposeAll(canon_decomp[char_int], 1, compatible, path \cup {char_int})
    ELSE IF compatible /\ char_int \in DOMAIN compat_decomp
        THEN DecomposeAll(compat_decomp[char_int], 1, compatible, path \cup {char_int})
    ELSE Yielded(<<char_int>>)

Decompose(char_int, compatible, path) ==
    IF char_int <= ASCII_LAST THEN Yielded(<<char_int>>)
    ELSE IF IsHangul(char_int) THEN Raised("assert not Hangul")
    ELSE IF char_int \in path THEN Raised("RecursionError")
    ELSE IF char_int \in DOMAIN canon_decomp
        THEN DecomposeAll(canon_decomp[char_int], 1, compatible, path \cup {char_int})
    ELSE IF compatible /\ char_int \in DOMAIN compat_decomp
        THEN DecomposeAll(compat_decomp[char_int], 1, compatible, path \cup {char_int})
    ELSE Yielded(<<char_int>>)

\* for decomposed_ch in decomp: yield from _decompose(decomposed_ch, compatible)
DecomposeAll(decomp, k, compatible, path) ==
    IF k > Len(decomp) THEN Yielded(<<>>)
    ELSE LET head == Decompose(decomp[k], compatible, path)
         IN  IF ~head.ok THEN head
             ELSE LET rest == DecomposeAll(decomp, k + 1, compatible, path)
                  IN  IF ~rest.ok THEN rest ELSE Yielded(head.seq \o rest.seq)

\* list(_decompose(char_int, compatible))
decompose(char_int, compatible) == Decompose(char_int, compatible, {})

Max(S) == CHOOSE a \in S : \A b \in S : b <= a
Min(S) == CHOOSE a \in S : \A b \in S : a <= b

\* the codepoints the model knows: an ASCII letter, two precomposed letters,
\* a combining mark, a Hangul syllable, a variation selector and an astral
\* codepoint.  A codepoint outside it has no record in any input file.
Codepoints == {65, 192, 193, 768, 44032, 65024, 65536}

\* range(0, end_codepoint + 1) without the Hangul syllables, lines 263-267
DecomposedRange(end_codepoint) ==
    {c \in Codepoints : c <= end_codepoint /\ ~IsHangul(c)}

\* the test `len(r) != 1`: a result of one codepoint is never stored
StoredIfNotSingle(char_int, compatible) ==
    Len(decompose(char_int, compatible).seq) # 1

\* lines 269-275: is anything stored for char_int
Stored(char_int, compatible) ==
    LET r == decompose(char_int, compatible).seq
    IN  ~(Len(r) = 1 /\ r[1] = char_int)

\* a dedup that drops every key the two tables share
DedupSharedKeys(canon, compat) ==
    Restrict(compat, DOMAIN compat \ DOMAIN canon)

\* lines 283-285: del compat_fully_decomp[ch] where the two tables agree
Dedup(canon, compat) ==
    Restrict(compat,
        {c \in DOMAIN compat : ~(c \in DOMAIN canon /\ canon[c] = compat[c])})

\* def _compute_fully_decomposed(self)
compute_fully_decomposed ==
    IF canon_decomp = EmptyTable \/ compat_decomp = EmptyTable
    THEN [ok |-> FALSE, error |-> "ValueError: max() arg is an empty sequence",
          canon |-> EmptyTable, compat |-> EmptyTable]
    ELSE
    LET end_codepoint == Max({Max(DOMAIN canon_decomp), Max(DOMAIN compat_decomp)})
        rng == DecomposedRange(end_codepoint)
        raised == {c \in rng : ~decompose(c, FALSE).ok \/ ~decompose(c, TRUE).ok}
        canon == [c \in {x \in rng : Stored(x, FALSE)} |-> decompose(c, FALSE).seq]
        compat == [c \in {x \in rng : Stored(x, TRUE)} |-> decompose(c, TRUE).seq]
    IN  IF raised # {}
        THEN [ok |-> FALSE,
              error |-> IF ~decompose(Min(raised), FALSE).ok
                        THEN decompose(Min(raised), FALSE).error
                        ELSE decompose(Min(raised), TRUE).error,
              canon |-> EmptyTable, compat |-> EmptyTable]
        ELSE IF ~(DOMAIN canon \subseteq DOMAIN compat)
        THEN [ok |-> FALSE, error |-> "assert canon keys <= compat keys",
              canon |-> canon, compat |-> compat]
        ELSE [ok |-> TRUE, error |-> "",
              canon |-> canon,
              compat |-> Dedup(canon, compat)]

(***************************************************************************)
(* _load_standardized_variants, lines 125-156.  A line of the file is a    *)
(* record of its three fields, the variation sequence already split into   *)
(* codepoints.                                                             *)
(***************************************************************************)
\* the assertions of lines 144-148 on the codepoint the description names;
\* canon_decomp[char_int] at line 146 raises KeyError when it is missing
VariantTargetError(char_int) ==
    IF char_int \in DOMAIN combining_classes
        THEN "assert not char_int in combining_classes"
    ELSE IF char_int \in DOMAIN compat_decomp
        THEN "assert not char_int in compat_decomp"
    ELSE IF char_int \notin DOMAIN canon_decomp
        THEN "KeyError: canon_decomp[char_int]"
    ELSE IF Len(canon_decomp[char_int]) # 1
        THEN "assert len(canon_decomp[char_int]) == 1"
    ELSE IF IsHangul(char_int)
        THEN "assert not Hangul"
    ELSE ""

\* the assertions of lines 151-154 on the codepoints of the sequence
RECURSIVE VariantPartsError(_, _)
VariantPartsError(parts, k) ==
    IF k > Len(parts) THEN ""
    ELSE IF parts[k] \in DOMAIN canon_decomp THEN "assert not c in canon_decomp"
    ELSE IF parts[k] \in DOMAIN compat_decomp THEN "assert not c in compat_decomp"
    ELSE VariantPartsError(parts, k + 1)

\* the loop of line 126 from line k of the file on
RECURSIVE VariantsLoop(_, _, _)
VariantsLoop(lines, k, svar) ==
    IF k > Len(lines) THEN [ok |-> TRUE, table |-> svar, error |-> ""]
    ELSE LET line == lines[k]
         IN  IF line.differences # "" THEN VariantsLoop(lines, k + 1, svar)
             ELSE IF line.description \notin DOMAIN name_to_char_int
                 THEN VariantsLoop(lines, k + 1, svar)
             ELSE LET char_int == name_to_char_int[line.description]
                      parts == line.variation_sequence
                  IN  IF VariantTargetError(char_int) # ""
                          THEN [ok |-> FALSE, table |-> svar,
                                error |-> VariantTargetError(char_int)]
                      ELSE IF VariantPartsError(parts, 1) # ""
                          THEN [ok |-> FALSE, table |-> svar,
                                error |-> VariantPartsError(parts, 1)]
                      ELSE VariantsLoop(lines, k + 1, Put(svar, char_int, parts))

\* def _load_standardized_variants(self)
load_standardized_variants == VariantsLoop(variants_file, 1, EmptyTable)

(***************************************************************************)
(* _compute_stream_safe_tables, lines 289-329.                             *)
(***************************************************************************)
\* self.compat_fully_decomp.get(c) or self.canon_fully_decomp[c]: an absent
\* or empty compatibility entry falls through to the canonical table
HasExpansion(c) ==
    \/ (c \in DOMAIN compat_fully_decomp /\ compat_fully_decomp[c] # <<>>)
    \/ c \in DOMAIN canon_fully_decomp

\* the lookup the other way round: the canonical entry first
ExpansionCanonFirst(c) ==
    IF c \in DOMAIN canon_fully_decomp /\ canon_fully_decomp[c] # <<>>
    THEN canon_fully_decomp[c]
    ELSE compat_fully_decomp[c]

Expansion(c) ==
    IF c \in DOMAIN compat_fully_decomp /\ compat_fully_decomp[c] # <<>>
    THEN compat_fully_decomp[c]
    ELSE canon_fully_decomp[c]

\* lines 312-316: the codepoints counted before the first one without a
\* combining class
RECURSIVE LeadingRun(_, _)
LeadingRun(decomposed, k) ==
    IF k > Len(decomposed) THEN 0
    ELSE IF decomposed[k] \notin DOMAIN combining_classes THEN 0
    ELSE 1 + LeadingRun(decomposed, k + 1)

\* reversed(decomposed)
Reversed(s) == [k \in 1..Len(s) |-> s[Len(s) + 1 - k]]

num_leading(c) == LeadingRun(Expansion(c), 1)
num_trailing(c) == LeadingRun(Reversed(Expansion(c)), 1)

\* def _compute_stream_safe_tables(self)
compute_stream_safe_tables ==
    LET cs == (DOMAIN canon_fully_decomp) \cup (DOMAIN compat_fully_decomp)
    IN  IF \E c \in cs : ~HasExpansion(c)
        THEN [ok |-> FALSE, error |-> "KeyError: canon_fully_decomp[c]",
              leading |-> EmptyTable, trailing |-> EmptyTable]
        ELSE [ok |-> TRUE, error |-> "",
              leading |-> [c \in {x \in cs : num_leading(x) > 0} |-> num_leading(c)],
              trailing |-> [c \in {x \in cs : num_trailing(x) > 0} |-> num_trailing(c)]]

(***************************************************************************)
(* The emitters, lines 333-462.  What is written to a file is a list of    *)
(* items, one per constant or function of the generated source.            *)
(***************************************************************************)
\* def gen_mph_data(name, d, kv_type, kv_callback): the list of items it
\* writes; none when minimal_perfect_hash exits.  kv_callback is the
\* function of the keys it is called on.
GenMphData(name, dd, kv_callback) ==
    Only({IF r.pc = "exit" THEN [ok |-> FALSE, items |-> <<>>]
          ELSE [ok |-> TRUE,
                items |-> << [name |-> name,
                              salt |-> r.salts,
                              kv   |-> [j \in DOMAIN r.keys |-> kv_callback[r.keys[j]]]] >>]
          : r \in {minimal_perfect_hash(dd)}})

\* int(combining_classes[k]) | (k << 8), the class being below 256
PackClass(table, k) == table[k] + (k * 256)

\* (c1 << 16) | c2 for c1, c2 < 0x10000
PackPair(c1, c2) == (c1 * W16) + c2

\* lines 349-352: the pairs with both members below 0x10000, by packed key
DenseTable(comp) ==
    LET dense == {p \in DOMAIN comp : p[1] < ASTRAL_FIRST /\ p[2] < ASTRAL_FIRST}
    IN  [k \in {PackPair(p[1], p[2]) : p \in dense} |->
            comp[CHOOSE p \in dense : PackPair(p[1], p[2]) = k]]

\* sorted(canon_comp.items()) keeps the pairs in tuple order
RECURSIVE SortedPairs(_)
SortedPairs(S) ==
    IF S = {} THEN <<>>
    ELSE LET m == CHOOSE p \in S : \A q \in S : q = p \/ PairLess(p, q)
         IN  <<m>> \o SortedPairs(S \ {m})

\* lines 359-361: the arms of composition_table_astral
AstralArms(comp) ==
    LET astral == {p \in DOMAIN comp : p[1] >= ASTRAL_FIRST /\ p[2] >= ASTRAL_FIRST}
        ps == SortedPairs(astral)
    IN  [k \in 1..Len(ps) |-> <<ps[k][1], ps[k][2], comp[ps[k]]>>]

\* def gen_combining_class(combining_classes, out)
GenCombiningClassItems ==
    GenMphData("CANONICAL_COMBINING_CLASS", SortedSeq(DOMAIN combining_classes),
               [k \in DOMAIN combining_classes |-> PackClass(combining_classes, k)])

\* def gen_composition_table(canon_comp, out): the hashed table of the
\* dense pairs, then the match on the astral pairs
GenCompositionTableItems ==
    Only({IF ~hashed.ok THEN hashed
          ELSE [ok |-> TRUE,
                items |-> hashed.items \o
                    << [name |-> "composition_table_astral",
                        arms |-> AstralArms(canon_comp)] >>]
          : hashed \in {Only({GenMphData("COMPOSITION_TABLE", SortedSeq(DOMAIN table),
                                         [k \in DOMAIN table |-> <<k, table[k]>>])
                              : table \in {DenseTable(canon_comp)}})}})

\* gen_mph_data on a decomposition table
GenDecomposed(name, table) ==
    GenMphData(name, SortedSeq(DOMAIN table), [k \in DOMAIN table |-> <<k, table[k]>>])

\* def gen_decomposition_tables(canon_decomp, compat_decomp, svar_decomp, out):
\* a table that cannot be hashed ends the build after the tables before it
GenDecompositionTablesItems ==
    Only({IF ~t1.ok THEN t1
          ELSE Only({IF ~t2.ok THEN [ok |-> FALSE, items |-> t1.items]
                     ELSE Only({[ok |-> t3.ok, items |-> t1.items \o t2.items \o t3.items]
                                : t3 \in {GenDecomposed("SVAR_DECOMPOSED", svar_fully_decomp)}})
                     : t2 \in {GenDecomposed("COMPATIBILITY_DECOMPOSED", compat_fully_decomp)}})
          : t1 \in {GenDecomposed("CANONICAL_DECOMPOSED", canon_fully_decomp)}})

\* def gen_combining_mark(general_category_mark, out): d is the list itself
GenCombiningMarkItems ==
    GenMphData("COMBINING_MARK", general_category_mark,
               [k \in Range(general_category_mark) |-> k])

\* def gen_qc_match(prop_table, out): the arms written until a record
\* fails `assert data in ('N', 'M')`
RECURSIVE QcArms(_, _)
QcArms(prop_table, k) ==
    IF k > Len(prop_table) THEN [ok |-> TRUE, arms |-> <<>>]
    ELSE IF prop_table[k].data \notin {"N", "M"} THEN [ok |-> FALSE, arms |-> <<>>]
    ELSE LET arm == << prop_table[k].low, prop_table[k].high,
                       IF prop_table[k].data = "N" THEN "No" ELSE "Maybe" >>
             rest == QcArms(prop_table, k + 1)
         IN  [ok |-> rest.ok, arms |-> <<arm>> \o rest.arms]

\* gen_nfc_qc, gen_nfkc_qc, gen_nfd_qc, gen_nfkd_qc in the order of __main__
QcFunctions ==
    << <<"qc_nfc", "NFC_QC">>, <<"qc_nfkc", "NFKC_QC">>,
       <<"qc_nfd", "NFD_QC">>, <<"qc_nfkd", "NFKD_QC">> >>

RECURSIVE GenQcItems(_)
GenQcItems(k) ==
    IF k > Len(QcFunctions) THEN [ok |-> TRUE, items |-> <<>>]
    ELSE LET m == QcArms(norm_props[QcFunctions[k][2]], 1)
             item == [name |-> QcFunctions[k][1], arms |-> m.arms]
         IN  IF ~m.ok THEN [ok |-> FALSE, items |-> <<item>>]
             ELSE LET rest == GenQcItems(k + 1)
                  IN  [ok |-> rest.ok, items |-> <<item>> \o rest.items]

\* def gen_stream_safe(leading, trailing, out): the match on the leading
\* counts, then the hashed table of the trailing counts
GenStreamSafeItems ==
    LET lead == [name |-> "stream_safe_leading_nonstarters",
                 arms |-> [k \in 1..Cardinality(DOMAIN ss_leading) |->
                             << SortedSeq(DOMAIN ss_leading)[k],
                                ss_leading[SortedSeq(DOMAIN ss_leading)[k]] >>]]
    IN  Only({[ok |-> trail.ok, items |-> <<lead>> \o trail.items]
              : trail \in {GenMphData("TRAILING_NONSTARTERS", SortedSeq(DOMAIN ss_trailing),
                               [k \in DOMAIN ss_trailing |-> PackClass(ss_trailing, k)])}})

(***************************************************************************)
(* The data a build starts from: what _load_unicode_data, _load_norm_props *)
(* and the fetch of StandardizedVariants.txt hand to the rest of the       *)
(* build.                                                                  *)
(***************************************************************************)
\* the codepoints with a decomposition field in UnicodeData.txt
RawKeys == {65, 192, 193, 44032}

\* canonical decomposition fields: singletons and pairs, among them a pair
\* with a Hangul member, a pair with one astral member and an astral pair
CanonSeqs ==
    { <<192>>, <<193>>, <<65, 768>>, <<192, 768>>, <<768, 44032>>,
      <<65, 65536>>, <<65536, 65536>> }

\* compatibility decomposition fields (a field that holds only its <tag>
\* is the empty list)
CompatSeqs == { <<>>, <<65>>, <<193>>, <<768, 65>> }

\* the decomposition field of one record: none, canonical or compatibility
\* (line 117: a field is one or the other)
DecompFields ==
    {<<"none", <<>>>>} \cup {<<"canon", s>> : s \in CanonSeqs}
                       \cup {<<"compat", s>> : s \in CompatSeqs}

\* the decomposition fields of the records, at most MaxRecords of them set
RawRecords ==
    {f \in [RawKeys -> DecompFields] :
        Cardinality({c \in RawKeys : f[c][1] # "none"}) <= MaxRecords}

\* self.canon_decomp and self.compat_decomp of the records f
CanonOf(f) == [c \in {x \in RawKeys : f[x][1] = "canon"} |-> f[c][2]]
CompatOf(f) == [c \in {x \in RawKeys : f[x][1] = "compat"} |-> f[c][2]]

\* a record (low, high, data) of DerivedNormalizationProps.txt
PropRecord(low, high, data) == [low |-> low, high |-> high, data |-> data]

\* the records of Full_Composition_Exclusion: none, one codepoint, an
\* interval, two codepoints
ExclusionLists ==
    { <<>>,
      << PropRecord(192, <<>>, "") >>,
      << PropRecord(192, <<193>>, "") >>,
      << PropRecord(193, <<>>, ""), PropRecord(65, <<>>, "") >> }

\* the records of the four quick-check properties: none, well-formed
\* ones, and a record of NFD_QC whose data is neither N nor M
QcLists ==
    { [p \in {"NFC_QC", "NFKC_QC", "NFD_QC", "NFKD_QC"} |-> <<>>],
      [p \in {"NFC_QC", "NFKC_QC", "NFD_QC", "NFKD_QC"} |->
          IF p \in {"NFC_QC", "NFKC_QC"}
          THEN << PropRecord(768, <<>>, "M"), PropRecord(192, <<193>>, "N") >>
          ELSE << PropRecord(192, <<193>>, "N") >>],
      [p \in {"NFC_QC", "NFKC_QC", "NFD_QC", "NFKD_QC"} |->
          IF p = "NFD_QC" THEN << PropRecord(192, <<>>, "Y") >>
          ELSE << PropRecord(768, <<>>, "N") >>] }

\* self.norm_props: a defaultdict(list)
NormProps(excl, qc) ==
    [p \in {"Full_Composition_Exclusion", "NFC_QC", "NFKC_QC", "NFD_QC", "NFKD_QC"} |->
        IF p = "Full_Composition_Exclusion" THEN excl ELSE qc[p]]

\* self.combining_classes: no entry, or class 230 for the combining mark
ClassTables == { EmptyTable, [c \in {768} |-> 230] }

\* self.name_to_char_int: every codepoint of the model has a record
CharNames ==
    [nm \in {"LETTER-0041", "LETTER-00C0", "LETTER-00C1", "MARK-0300",
             "SYLLABLE-AC00", "SELECTOR-FE00", "LETTER-10000"} |->
        CASE nm = "LETTER-0041" -> 65
          [] nm = "LETTER-00C0" -> 192
          [] nm = "LETTER-00C1" -> 193
          [] nm = "MARK-0300" -> 768
          [] nm = "SYLLABLE-AC00" -> 44032
          [] nm = "SELECTOR-FE00" -> 65024
          [] nm = "LETTER-10000" -> 65536]

\* a line of StandardizedVariants.txt
VariantLine(seq, description, differences) ==
    [variation_sequence |-> seq, description |-> description,
     differences |-> differences]

VariantLines ==
    {VariantLine(<<65, 65024>>, nm, diff) :
        nm \in {"LETTER-00C0", "MARK-0300", "SYLLABLE-AC00", "dotted form"},
        diff \in {"", "isolate"}}
    \cup {VariantLine(<<193, 65024>>, "LETTER-00C0", "")}

VariantFiles ==
    {<<>>} \cup {<<l>> : l \in VariantLines}
           \cup {<<VariantLine(<<65, 65024>>, "LETTER-00C0", ""), l>> :
                    l \in {VariantLine(<<65, 65024>>, "dotted form", ""),
                           VariantLine(<<65, 65024>>, "SYLLABLE-AC00", "")}}

BuildInput(f, excl, qc, classes, marks, variants) ==
    [canon |-> CanonOf(f), compat |-> CompatOf(f),
     props |-> NormProps(excl, qc), classes |-> classes,
     marks |-> marks, variants |-> variants]

\* well-formed quick-check records
PlainQc == CHOOSE q \in QcLists : q["NFD_QC"] # <<>> /\ q["NFD_QC"][1].data = "N"

\* every choice of decomposition records, exclusions and combining classes,
\* with one mark, no variant line and well-formed quick-check records
ResolverInputs ==
    {BuildInput(f, excl, PlainQc, classes, <<768>>, <<>>) :
        f \in RawRecords, excl \in ExclusionLists, classes \in ClassTables}

\* the records the emitter inputs are built on: U+00C0 with a singleton or
\* a two-codepoint canonical decomposition, U+00C1 with a compatibility one
EmitterRecords ==
    {f \in RawRecords :
        /\ f[192] \in {<<"canon", <<193>>>>, <<"canon", <<65, 768>>>>}
        /\ f[193] = <<"compat", <<768, 65>>>>}

\* every choice of variant lines, quick-check records, marks and combining
\* classes over the emitter records, U+00C0 excluded from composition
EmitterInputs ==
    {BuildInput(f, << PropRecord(192, <<>>, "") >>, qc, classes, marks, variants) :
        f \in EmitterRecords, qc \in QcLists, classes \in ClassTables,
        marks \in {<<>>, <<768>>}, variants \in VariantFiles}

\* a mark with two records in UnicodeData.txt: general_category_mark holds
\* it twice
RepeatedMarkInputs ==
    {BuildInput(f, << PropRecord(192, <<>>, "") >>, qc, [c \in {768} |-> 230],
                <<768, 768>>, <<>>) :
        f \in {g \in EmitterRecords : g[192][2] = <<65, 768>>},
        qc \in {q \in QcLists : q["NFD_QC"] = <<>>}}

\* three records: two precomposed letters with canonical pairs, the
\* second pair the same as the first, on the mark, or on the first letter,
\* and the mark with a compatibility decomposition
ComposerInputs ==
    {[canon |-> [c \in {192, 193} |-> IF c = 192 THEN <<65, 65024>> ELSE s],
      compat |-> [c \in {768} |-> <<65>>],
      props |-> NormProps(excl, PlainQc), classes |-> classes,
      marks |-> <<768>>, variants |-> <<>>] :
        s \in {<<65, 768>>, <<65, 65024>>, <<192, 768>>},
        excl \in ExclusionLists, classes \in ClassTables}

BuildInputs ==
    ResolverInputs \cup EmitterInputs \cup RepeatedMarkInputs \cup ComposerInputs

(***************************************************************************)
(* Spec: one build.                                                        *)
(***************************************************************************)
\* no call of minimal_perfect_hash is open
MphIdle == [pc |-> "idle"]

NoOutput == [tables_rs |-> <<>>, normalization_tests_rs |-> <<>>]

\* the build variables while SpecMPH runs the hash alone
BuildIdle ==
    /\ name_to_char_int = EmptyTable
    /\ combining_classes = EmptyTable
    /\ compat_decomp = EmptyTable
    /\ canon_decomp = EmptyTable
    /\ general_category_mark = <<>>
    /\ norm_props = NormProps(<<>>, CHOOSE q \in QcLists : q["NFD_QC"] = <<>>)
    /\ variants_file = <<>>
    /\ canon_comp = EmptyTable
    /\ canon_fully_decomp = EmptyTable
    /\ compat_fully_decomp = EmptyTable
    /\ svar_decomp = EmptyTable
    /\ svar_fully_decomp = EmptyTable
    /\ ss_leading = EmptyTable
    /\ ss_trailing = EmptyTable
    /\ out = NoOutput
    /\ pc = "idle"
    /\ err = ""

\* lines 68-70: the state of UnicodeData after the three loads
Init ==
    /\ mph = MphIdle
    /\ \E input \in BuildInputs :
          /\ canon_decomp = input.canon
          /\ compat_decomp = input.compat
          /\ norm_props = input.props
          /\ combining_classes = input.classes
          /\ general_category_mark = input.marks
          /\ variants_file = input.variants
    /\ name_to_char_int = CharNames
    /\ canon_comp = EmptyTable
    /\ canon_fully_decomp = EmptyTable
    /\ compat_fully_decomp = EmptyTable
    /\ svar_decomp = EmptyTable
    /\ svar_fully_decomp = EmptyTable
    /\ ss_leading = EmptyTable
    /\ ss_trailing = EmptyTable
    /\ out = NoOutput
    /\ pc = "canon_comp"
    /\ err = ""

inputvars ==
    << mph, name_to_char_int, combining_classes, compat_decomp, canon_decomp,
       general_category_mark, norm_props, variants_file >>

\* an exception leaves __init__ or __main__: the build is over
Abort(e) == pc' = "aborted" /\ err' = e

\* line 72: self.canon_comp = self._compute_canonical_comp()
ComputeCanonicalComp ==
    /\ pc = "canon_comp"
    /\ LET r == compute_canonical_comp(canon_decomp, norm_props)
       IN  IF r.ok
           THEN canon_comp' = r.table /\ pc' = "fully_decomposed" /\ err' = err
           ELSE canon_comp' = canon_comp /\ Abort(r.error)
    /\ UNCHANGED << inputvars, canon_fully_decomp, compat_fully_decomp,
                    svar_decomp, svar_fully_decomp, ss_leading, ss_trailing, out >>

\* line 73: self.canon_fully_decomp, self.compat_fully_decomp = ...
ComputeFullyDecomposed ==
    /\ pc = "fully_decomposed"
    /\ LET r == compute_fully_decomposed
       IN  IF r.ok
           THEN /\ canon_fully_decomp' = r.canon
                /\ compat_fully_decomp' = r.compat
                /\ pc' = "variants" /\ err' = err
           ELSE /\ UNCHANGED << canon_fully_decomp, compat_fully_decomp >>
                /\ Abort(r.error)
    /\ UNCHANGED << inputvars, canon_comp, svar_decomp, svar_fully_decomp,
                    ss_leading, ss_trailing, out >>

\* lines 75-77: the variant tables; the entries stored before an assertion
\* fails stay in them
LoadStandardizedVariants ==
    /\ pc = "variants"
    /\ LET r == load_standardized_variants
       IN  /\ svar_decomp' = r.table
           /\ svar_fully_decomp' = r.table
           /\ IF r.ok THEN pc' = "stream_safe" /\ err' = err ELSE Abort(r.error)
    /\ UNCHANGED << inputvars, canon_comp, canon_fully_decomp, compat_fully_decomp,
                    ss_leading, ss_trailing, out >>

\* line 91: self.ss_leading, self.ss_trailing = ...
ComputeStreamSafeTables ==
    /\ pc = "stream_safe"
    /\ LET r == compute_stream_safe_tables
       IN  IF r.ok
           THEN /\ ss_leading' = r.leading /\ ss_trailing' = r.trailing
                /\ pc' = "open" /\ err' = err
           ELSE /\ UNCHANGED << ss_leading, ss_trailing >>
                /\ Abort(r.error)
    /\ UNCHANGED << inputvars, canon_comp, canon_fully_decomp, compat_fully_decomp,
                    svar_decomp, svar_fully_decomp, out >>

tablevars ==
    << canon_comp, canon_fully_decomp, compat_fully_decomp,
       svar_decomp, svar_fully_decomp, ss_leading, ss_trailing >>

\* lines 522-530: tables.rs is opened and its head written
OpenTables ==
    /\ pc = "open"
    /\ out' = [out EXCEPT !.tables_rs = << [name |-> "UNICODE_VERSION"] >>]
    /\ pc' = "gen_combining_class"
    /\ UNCHANGED << inputvars, tablevars, err >>

\* a gen_* call of __main__: what it wrote is in the file whether it
\* returned or ended the build
Emit(next, r, e) ==
    /\ out' = [out EXCEPT !.tables_rs = out.tables_rs \o r.items]
    /\ IF r.ok THEN pc' = next /\ err' = err ELSE Abort(e)
    /\ UNCHANGED << inputvars, tablevars >>

\* line 532
GenCombiningClass ==
    /\ pc = "gen_combining_class"
    /\ \E r \in {GenCombiningClassItems} : Emit("gen_composition_table", r, "exit(1)")

\* line 535
GenCompositionTable ==
    /\ pc = "gen_composition_table"
    /\ \E r \in {GenCompositionTableItems} : Emit("gen_decomposition_tables", r, "exit(1)")

\* line 538
GenDecompositionTables ==
    /\ pc = "gen_decomposition_tables"
    /\ \E r \in {GenDecompositionTablesItems} : Emit("gen_combining_mark", r, "exit(1)")

\* line 540
GenCombiningMark ==
    /\ pc = "gen_combining_mark"
    /\ \E r \in {GenCombiningMarkItems} : Emit("gen_qc", r, "exit(1)")

\* lines 543-552
GenQc ==
    /\ pc = "gen_qc"
    /\ \E r \in {GenQcItems(1)} : Emit("gen_stream_safe", r, "assert data in ('N', 'M')")

\* line 555
GenStreamSafe ==
    /\ pc = "gen_stream_safe"
    /\ \E r \in {GenStreamSafeItems} : Emit("gen_tests", r, "exit(1)")

\* lines 558-560: normalization_tests.rs
GenTests ==
    /\ pc = "gen_tests"
    /\ out' = [out EXCEPT !.normalization_tests_rs = << [name |-> "NORMALIZATION_TESTS"] >>]
    /\ pc' = "done"
    /\ UNCHANGED << inputvars, tablevars, err >>

Next ==
    \/ ComputeCanonicalComp
    \/ ComputeFullyDecomposed
    \/ LoadStandardizedVariants
    \/ ComputeStreamSafeTables
    \/ OpenTables
    \/ GenCombiningClass
    \/ GenCompositionTable
    \/ GenDecompositionTables
    \/ GenCombiningMark
    \/ GenQc
    \/ GenStreamSafe
    \/ GenTests

Spec == Init /\ [][Next]_vars

(***************************************************************************)
(* SpecMPH: minimal_perfect_hash on a list of keys.                        *)
(***************************************************************************)
\* keys handed to the hash: the keys of the worked example, a codepoint and
\* a packed composition pair (0x00C0 << 16 | 0x0300)
MphKeys == {5, 9, 100, 257, 768, 12583680}

\* a list with a repeated key, as general_category_mark has when a
\* codepoint of category M* has two records
MphRepeated == {<<768, 768>>}

MphInputs ==
    {SortedSeq(S) : S \in {T \in SUBSET MphKeys : Cardinality(T) <= MaxKeys}}
        \cup MphRepeated

InitMPH ==
    /\ \E dd \in MphInputs : mph = [pc |-> "call", d |-> dd]
    /\ BuildIdle

\* lines 474-483
MphStart ==
    /\ mph.pc = "call"
    /\ mph' = MphSetup(mph.d)
    /\ UNCHANGED buildvars

\* lines 491-517: the salt search for a nonempty bucket, which ends with
\* the bucket placed or with exit(1)
MphSearch ==
    /\ mph.pc = "loop"
    /\ mph.i <= mph.n
    /\ mph.bsorted[mph.i][1] # 0
    /\ mph' = MphIterate(mph)
    /\ UNCHANGED buildvars

\* line 489: the first empty bucket ends the loop
MphBreak ==
    /\ mph.pc = "loop"
    /\ mph.i <= mph.n
    /\ mph.bsorted[mph.i][1] = 0
    /\ mph' = MphIterate(mph)
    /\ UNCHANGED buildvars

\* the loop is exhausted, line 518
MphExhaust ==
    /\ mph.pc = "loop"
    /\ mph.i > mph.n
    /\ mph' = [mph EXCEPT !.pc = "return"]
    /\ UNCHANGED buildvars

NextMPH == MphStart \/ MphSearch \/ MphBreak \/ MphExhaust

SpecMPH == InitMPH /\ [][NextMPH]_vars

(***************************************************************************)
(* Properties of minimal_perfect_hash (SpecMPH).                           *)
(***************************************************************************)
NoRepeat(s) == \A a, b \in 1..Len(s) : a # b => s[a] # s[b]

\* the bucket processed at position a of bsorted, and its occupancy
BucketAt(a) == mph.bsorted[a][2]
SizeAt(a) == Len(mph.buckets[BucketAt(a)])

\* the slots the bucket processed at position a rehashes to under its salt
SlotsAt(a) ==
    {my_hash(mph.buckets[BucketAt(a)][k], mph.salts[BucketAt(a)], mph.n) :
        k \in 1..SizeAt(a)}

\* the slots claimed by the buckets processed before position a
ClaimedBefore(a) == UNION {SlotsAt(b) : b \in 1..(a - 1)}

\* the bucket at position a, rehashed with salt s, lands on pairwise
\* distinct slots that no bucket processed earlier has claimed
SaltFits(a, s) ==
    LET b == mph.buckets[BucketAt(a)]
        slots == {my_hash(b[k], s, mph.n) : k \in 1..Len(b)}
    IN  Cardinality(slots) = Len(b) /\ slots \cap ClaimedBefore(a) = {}

MphRunning == mph.pc \in {"loop", "return", "exit"}

\* C1: when minimal_perfect_hash returns for n distinct keys, salts and keys
\* have length n, every key of d sits in exactly one slot of keys, every
\* slot holds a key of d, and keys[my_hash(k, salts[my_hash(k, 0, n)], n)] = k
\* for every key k of d.
C1_PerfectAndMinimal ==
    (mph.pc = "return" /\ NoRepeat(mph.d)) =>
        LET nn == Len(mph.d)
        IN  /\ DOMAIN mph.salts = 0..(nn - 1)
            /\ DOMAIN mph.keys = 0..(nn - 1)
            /\ \A k \in Range(mph.d) :
                   Cardinality({j \in 0..(nn - 1) : mph.keys[j] = k}) = 1
            /\ \A j \in 0..(nn - 1) : mph.keys[j] \in Range(mph.d)
            /\ \A k \in Range(mph.d) :
                   mph.keys[my_hash(k, mph.salts[my_hash(k, 0, nn)], nn)] = k

\* a return for MaxKeys distinct keys of which two share a bucket
C1_Witness ==
    /\ mph.pc = "return"
    /\ NoRepeat(mph.d)
    /\ Len(mph.d) = MaxKeys
    /\ \E h \in 0..(mph.n - 1) : Len(mph.buckets[h]) >= 2

\* the order of bsorted: every bucket once, by descending occupancy
OrderedByOccupancy ==
    /\ Len(mph.bsorted) = mph.n
    /\ {BucketAt(a) : a \in 1..mph.n} = 0..(mph.n - 1)
    /\ \A a \in 1..mph.n : mph.bsorted[a][1] = SizeAt(a)
    /\ \A a, b \in 1..mph.n : a < b => SizeAt(a) >= SizeAt(b)

\* nonempty buckets are processed, in the order of bsorted, until the first
\* empty one; each claims only slots no earlier bucket claimed
ProcessedInOrder ==
    /\ \A a \in 1..(mph.i - 1) : SizeAt(a) > 0
    /\ mph.pc = "return" => \A a \in mph.i..mph.n : SizeAt(a) = 0
    /\ \A a \in 1..(mph.i - 1) : SlotsAt(a) \cap ClaimedBefore(a) = {}
    /\ \A j \in 0..(mph.n - 1) : mph.claimed[j] <=> j \in ClaimedBefore(mph.i)

\* C9 as stated: buckets are processed by descending occupancy with ties
\* broken by ascending bucket index.
C9_TiesAscending ==
    MphRunning =>
        /\ OrderedByOccupancy
        /\ ProcessedInOrder
        /\ \A a, b \in 1..mph.n :
               (a < b /\ SizeAt(a) = SizeAt(b)) => BucketAt(a) < BucketAt(b)

\* C9 amended: buckets are processed by descending occupancy with ties
\* broken by descending bucket index (bsorted is sorted in reverse as
\* (occupancy, index) pairs); all nonempty buckets come before the first
\* empty one, where processing stops, and a bucket claims only slots that
\* no bucket processed earlier has claimed.
C9_TiesDescending ==
    MphRunning =>
        /\ OrderedByOccupancy
        /\ ProcessedInOrder
        /\ \A a, b \in 1..mph.n :
               (a < b /\ SizeAt(a) = SizeAt(b)) => BucketAt(a) > BucketAt(b)

\* two nonempty buckets of equal occupancy have both been processed
C9_Witness ==
    /\ MphRunning
    /\ mph.i >= 3
    /\ SizeAt(1) = SizeAt(2)

\* what C10 says of a run whatever the end of the salt range is: a processed
\* bucket has the first salt that fits, and arrays are returned only when
\* every nonempty bucket has a salt
SaltSearchOutcome ==
    /\ \A a \in 1..(mph.i - 1) :
          /\ mph.salts[BucketAt(a)] >= 1
          /\ SaltFits(a, mph.salts[BucketAt(a)])
          /\ \A s \in 1..(mph.salts[BucketAt(a)] - 1) : ~SaltFits(a, s)
    /\ mph.pc = "return" =>
          \A h \in 0..(mph.n - 1) : Len(mph.buckets[h]) > 0 => mph.salts[h] # 0

\* C10 as stated: the salts tried run from 1 up to 32768, so a run that
\* aborts has tried salt 32768 last.
C10_SaltsUpTo32768 ==
    MphRunning =>
        /\ SaltSearchOutcome
        /\ \A a \in 1..(mph.i - 1) : mph.salts[BucketAt(a)] <= 32768
        /\ mph.pc = "exit" =>
              /\ SizeAt(mph.i) > 0
              /\ mph.salt = 32768
              /\ \A s \in 1..32768 : ~SaltFits(mph.i, s)

\* the same with the salts of range(1, 32768), which are 1..32767
C10_SaltsUpTo32767 ==
    MphRunning =>
        /\ SaltSearchOutcome
        /\ \A a \in 1..(mph.i - 1) : mph.salts[BucketAt(a)] <= 32767
        /\ mph.pc = "exit" =>
              /\ SizeAt(mph.i) > 0
              /\ mph.salt = 32767
              /\ \A s \in 1..32767 : ~SaltFits(mph.i, s)

\* the number of steps a run can still take is bounded by the buckets left:
\* every step of minimal_perfect_hash makes this natural number smaller
MphVariant ==
    IF mph.pc = "call" THEN Len(mph.d) + 3
    ELSE IF mph.pc = "loop" THEN (mph.n + 2) - mph.i
    ELSE 0

\* C10 amended: minimal_perfect_hash terminates for every list of keys; for
\* each nonempty bucket it tries the salts 1..32767 in increasing order
\* (32768 ends the range and is never tried), accepts the first under which
\* the bucket rehashes to pairwise distinct unclaimed slots, aborts when
\* none of them is accepted, and never returns arrays while a nonempty
\* bucket has no salt.
C10_SaltSearchTerminates ==
    /\ []C10_SaltsUpTo32767
    /\ [][MphVariant' < MphVariant]_vars

\* a bucket was given a salt above 1: the search went past a rejected salt
C10_Witness ==
    /\ mph.pc = "return"
    /\ \E h \in 0..(mph.n - 1) : mph.salts[h] >= 2

\* the search ran out of salts: the abort of lines 504-517
C10_AbortReached == mph.pc = "exit"


(***************************************************************************)
(* Properties of the build, under Spec.                                    *)
(***************************************************************************)
\* the items of tables.rs that are tables; the head of the file is none
TablesWritten ==
    {k \in 1..Len(out.tables_rs) : out.tables_rs[k].name # "UNICODE_VERSION"}

\* C2: a run that aborts has written no table to tables.rs at the moment
\* of the abort
C2_AbortWritesNoTable ==
    pc = "aborted" => TablesWritten = {}

\* is char_int inside the interval of a Full_Composition_Exclusion record, a
\* record of one codepoint being the interval [low, low]
InExclusionInterval(char_int) ==
    \E k \in 1..Len(norm_props["Full_Composition_Exclusion"]) :
        LET rec == norm_props["Full_Composition_Exclusion"][k]
        IN  /\ rec.low <= char_int
            /\ char_int <= (IF rec.high = <<>> THEN rec.low ELSE rec.high[1])

\* C3: on a build that completes, every entry (c1, c2) -> c3 of canon_comp
\* has canon_decomp[c3] = [c1, c2] and c3 outside every exclusion interval
C3_CompositionRoundTrip ==
    pc = "done" =>
        \A p \in DOMAIN canon_comp :
            /\ canon_comp[p] \in DOMAIN canon_decomp
            /\ canon_decomp[canon_comp[p]] = <<p[1], p[2]>>
            /\ ~InExclusionInterval(canon_comp[p])

\* a completed build with an entry in canon_comp and an excluded codepoint
\* that has a two-codepoint canonical decomposition
C3_Witness ==
    /\ pc = "done"
    /\ canon_comp # EmptyTable
    /\ \E c \in DOMAIN canon_decomp :
          Len(canon_decomp[c]) = 2 /\ InExclusionInterval(c)

\* table[c] if present, else the fallback
Lookup(table, c, fallback) == IF c \in DOMAIN table THEN table[c] ELSE fallback

\* the end_codepoint of lines 255-258
EndCodepoint == Max(DOMAIN canon_decomp \cup DOMAIN compat_decomp)

\* C4: when _compute_fully_decomposed has returned, for every non-Hangul
\* codepoint up to end_codepoint the canonical table (else [c]) gives
\* decompose(c, False), the compatibility table (else the canonical table,
\* else [c]) gives decompose(c, True), and no codepoint has the same
\* sequence in both tables
C4_TablesAreTheRecursion ==
    pc = "variants" =>
        /\ \A c \in {x \in Codepoints : x <= EndCodepoint /\ ~IsHangul(x)} :
              /\ decompose(c, FALSE) = Yielded(Lookup(canon_fully_decomp, c, <<c>>))
              /\ decompose(c, TRUE) =
                    Yielded(Lookup(compat_fully_decomp, c,
                                   Lookup(canon_fully_decomp, c, <<c>>)))
        /\ \A c \in DOMAIN canon_fully_decomp \cap DOMAIN compat_fully_decomp :
              canon_fully_decomp[c] # compat_fully_decomp[c]

\* the resolver returned with a codepoint in both tables (the two modes
\* disagree on it) and a codepoint dropped from the compatibility table
C4_Witness ==
    /\ pc = "variants"
    /\ DOMAIN canon_fully_decomp \cap DOMAIN compat_fully_decomp # {}
    /\ DOMAIN canon_fully_decomp \ DOMAIN compat_fully_decomp # {}

\* C5: on a build that completes no Hangul syllable is a key of a
\* decomposition, variant or stream-safe table, nor a member of a pair key
\* of canon_comp
C5_NoHangulKey ==
    pc = "done" =>
        /\ \A c \in DOMAIN canon_fully_decomp \cup DOMAIN compat_fully_decomp
                    \cup DOMAIN svar_decomp \cup DOMAIN svar_fully_decomp
                    \cup DOMAIN ss_leading \cup DOMAIN ss_trailing : ~IsHangul(c)
        /\ \A p \in DOMAIN canon_comp : ~IsHangul(p[1]) /\ ~IsHangul(p[2])

\* C6: decompose(c, compatible) is [c] for c <= 0x7F in both modes, whatever
\* the raw maps hold for c, and no such c is a key of a fully decomposed
\* table
C6_AsciiNeverDecomposes ==
    /\ \A c \in {x \in Codepoints : x <= 127} : \A compatible \in BOOLEAN :
          decompose(c, compatible) = Yielded(<<c>>)
    /\ \A c \in DOMAIN canon_fully_decomp \cup DOMAIN compat_fully_decomp : c > 127

\* the resolver returned tables for raw maps that hold an entry for an
\* ASCII codepoint
C6_Witness ==
    /\ pc = "variants"
    /\ canon_fully_decomp # EmptyTable
    /\ \E c \in DOMAIN canon_decomp \cup DOMAIN compat_decomp : c <= 127

\* the codepoints with a canonical decomposition outside every exclusion
\* interval, and those of them with a two-codepoint decomposition
NotExcluded == {c \in DOMAIN canon_decomp : ~InExclusionInterval(c)}
Selected == {c \in NotExcluded : Len(canon_decomp[c]) = 2}
DuplicatePair ==
    \E c, d \in Selected : c # d /\ canon_decomp[c] = canon_decomp[d]

\* the table of the selected codepoints
SelectedTable ==
    [p \in {<<canon_decomp[c][1], canon_decomp[c][2]>> : c \in Selected} |->
        CHOOSE c \in Selected : canon_decomp[c] = <<p[1], p[2]>>]

\* the build ended inside _compute_canonical_comp
CompAborted ==
    /\ pc = "aborted"
    /\ err \in {"assert len(decomp) == 2", "assert pair not in canon_comp"}

\* C7 as stated: the builder aborts only on a duplicate pair among the
\* selected codepoints; otherwise it returns the table of the selected
\* codepoints, a non-excluded codepoint with another length adding nothing
C7_AbortsOnlyOnDuplicate ==
    pc # "canon_comp" =>
        IF DuplicatePair THEN CompAborted
        ELSE ~CompAborted /\ (pc = "fully_decomposed" => canon_comp = SelectedTable)

\* C7: the builder aborts when a non-excluded codepoint has a canonical
\* decomposition of a length other than two or when two selected codepoints
\* have the same pair, and in no other case; otherwise it returns the table
\* of the selected codepoints
C7_AbortsOnLengthOrDuplicate ==
    pc # "canon_comp" =>
        IF Selected # NotExcluded \/ DuplicatePair THEN CompAborted
        ELSE ~CompAborted /\ (pc = "fully_decomposed" => canon_comp = SelectedTable)

\* the builder returned a table with an entry, passing over an excluded
\* codepoint whose decomposition is no pair
C7_Witness ==
    /\ pc = "fully_decomposed"
    /\ canon_comp # EmptyTable
    /\ \E c \in DOMAIN canon_decomp :
          InExclusionInterval(c) /\ Len(canon_decomp[c]) # 2

\* the builder ended the build on a non-excluded codepoint whose
\* decomposition is no pair
C7_LengthAbortReached ==
    CompAborted /\ err = "assert len(decomp) == 2" /\ ~DuplicatePair

\* the items gen_composition_table wrote
ItemsNamed(name) ==
    {k \in 1..Len(out.tables_rs) : out.tables_rs[k].name = name}

\* how often the entry p -> c3 stands in the hashed table, in the match
DenseCopies(p, c3) ==
    IF p[1] >= 65536 \/ p[2] >= 65536 THEN 0
    ELSE Cardinality({<<k, j>> \in UNION {{k} \X DOMAIN out.tables_rs[k].kv :
                                            k \in ItemsNamed("COMPOSITION_TABLE")} :
             out.tables_rs[k].kv[j] = <<(p[1] * 65536) + p[2], c3>>})

AstralCopies(p, c3) ==
    Cardinality({<<k, j>> \in UNION {{k} \X DOMAIN out.tables_rs[k].arms :
                                        k \in ItemsNamed("composition_table_astral")} :
        out.tables_rs[k].arms[j] = <<p[1], p[2], c3>>})

\* C8: once gen_composition_table has returned, every entry of canon_comp
\* stands exactly once in the output: in the hashed table when both
\* members are <= 0xFFFF, in the astral match when one of them is above
C8_EmissionIsPartition ==
    ItemsNamed("composition_table_astral") # {} =>
        \A p \in DOMAIN canon_comp :
            IF p[1] <= 65535 /\ p[2] <= 65535
            THEN DenseCopies(p, canon_comp[p]) = 1 /\ AstralCopies(p, canon_comp[p]) = 0
            ELSE DenseCopies(p, canon_comp[p]) = 0 /\ AstralCopies(p, canon_comp[p]) = 1

\* the representative expansion of a key of a fully decomposed table: the
\* compatibility entry if present, else the canonical one
Representative(c) ==
    IF c \in DOMAIN compat_fully_decomp THEN compat_fully_decomp[c]
    ELSE canon_fully_decomp[c]

\* is d a non-starter: does it have a nonzero combining class
NonStarter(d) == d \in DOMAIN combining_classes

\* the length of the longest prefix, of the longest suffix, of non-starters
NonStarterPrefix(e) ==
    Max({n \in 0..Len(e) : \A k \in 1..n : NonStarter(e[k])})
NonStarterSuffix(e) ==
    Max({n \in 0..Len(e) : \A k \in 1..n : NonStarter(e[Len(e) + 1 - k])})

C11_KeyErrorReached ==
    pc = "aborted" /\ err = "KeyError: canon_fully_decomp[c]"

\* C12: the assertion of line 281 never fails, and wherever both modes of
\* decompose end on c without an exception and the canonical result is not
\* [c], the compatibility result is not [c] either
C12_SubsetAssertionHolds ==
    /\ err # "assert canon keys <= compat keys"
    /\ \A c \in Codepoints :
          (/\ decompose(c, FALSE).ok
           /\ decompose(c, TRUE).ok
           /\ decompose(c, FALSE).seq # <<c>>)
          => decompose(c, TRUE).seq # <<c>>

\* the resolver passed the assertion with a key of the canonical table on
\* which the two modes give different results
C12_Witness ==
    /\ pc = "variants"
    /\ \E c \in DOMAIN canon_fully_decomp :
          decompose(c, TRUE).seq # decompose(c, FALSE).seq

============================================================================
